---- MODULE Spec2Model ----
(***************************************************************************)
(* Model of the PWL designer of the GNA plugin                             *)
(* (src/src/plugins/intel_gna/transformations/transpose_to_pwl.cpp):       *)
(* transpose_to_pwl -> pwl_search -> pivot_search / calculate_error_pct.   *)
(*                                                                         *)
(* Doubles are modelled as fixed-point numbers with SC units per 1.0, with *)
(* the three IEEE special values +inf, -inf and NaN, so that the tests the *)
(* code makes on its numbers (isnan, <, >, ==) behave as they do on        *)
(* doubles.  A finite value whose magnitude reaches FMAX overflows to an   *)
(* infinity, as a double does at DBL_MAX.                                  *)
(***************************************************************************)
EXTENDS Integers, Sequences, FiniteSets, TLC

\* ------------------------------------------------------------------------
\* Bounds of the model
\* ------------------------------------------------------------------------
\* fixed-point units per 1.0
SC == 1024
\* stands for details::max_segments_number<T>() (PWL_MAX_NUM_SEGMENTS, 128)
MaxSegments == 3
\* stands for details::max_iterations<T>() (PWL_MAX_ITERATIONS_DEFAULT, 2000)
MaxIterDefault == 7
\* how many more passes Log gets (PWL_MAX_ITERATIONS_LOG, 5000, is larger)
MaxIterLogExtra == 2

\* ------------------------------------------------------------------------
\* double arithmetic
\* ------------------------------------------------------------------------
FMAX == SC * SC
PInf == FMAX
NInf == 0 - FMAX
NaN == FMAX + 1

\* an operator applied to the values of its arguments: each argument is computed once
Strict1(F(_), x) == CHOOSE r \in {F(a) : a \in {x}} : TRUE
Strict2(F(_, _), x, y) == CHOOSE r \in {F(a, b) : a \in {x}, b \in {y}} : TRUE

IAbs(n) == IF n < 0 THEN 0 - n ELSE n
ISgn(n) == IF n > 0 THEN 1 ELSE IF n < 0 THEN 0 - 1 ELSE 0

\* integer quotient rounded to nearest (d # 0)
RDiv(n, d) ==
    Strict2(LAMBDA q, r : IF (n >= 0) = (d > 0)
                          THEN (IF 2 * r >= IAbs(d) THEN q + 1 ELSE q)
                          ELSE 0 - (IF 2 * r >= IAbs(d) THEN q + 1 ELSE q),
            IAbs(n) \div IAbs(d), IAbs(n) % IAbs(d))

\* the fixed-point value of the literal n/d
Lit(n, d) == RDiv(n * SC, d)

IsNan(x) == x = NaN
IsInf(x) == x = PInf \/ x = NInf
IsFinite(x) == ~IsNan(x) /\ ~IsInf(x)
Inf(sg) == IF sg > 0 THEN PInf ELSE NInf
Clamp(v) == IF v >= FMAX THEN PInf ELSE IF v <= 0 - FMAX THEN NInf ELSE v

FNeg(x) == Strict1(LAMBDA a : IF IsNan(a) THEN NaN ELSE 0 - a, x)
FAbs(x) == Strict1(LAMBDA a : IF IsNan(a) THEN NaN ELSE IAbs(a), x)

FAdd(x, y) ==
    Strict2(LAMBDA a, b :
                IF IsNan(a) \/ IsNan(b) THEN NaN
                ELSE IF IsInf(a) THEN (IF IsInf(b) /\ b # a THEN NaN ELSE a)
                ELSE IF IsInf(b) THEN b
                ELSE Clamp(a + b),
            x, y)

FSub(x, y) == FAdd(x, FNeg(y))

FMul(x, y) ==
    Strict2(LAMBDA a, b :
                IF IsNan(a) \/ IsNan(b) THEN NaN
                ELSE IF IsInf(a) \/ IsInf(b)
                     THEN (IF a = 0 \/ b = 0 THEN NaN ELSE Inf(ISgn(a) * ISgn(b)))
                ELSE IF a = 0 \/ b = 0 THEN 0
                ELSE IF IAbs(a) > (FMAX * SC) \div IAbs(b) THEN Inf(ISgn(a) * ISgn(b))
                ELSE Clamp(RDiv(a * b, SC)),
            x, y)

FDiv(x, y) ==
    Strict2(LAMBDA a, b :
                IF IsNan(a) \/ IsNan(b) THEN NaN
                ELSE IF IsInf(a)
                     THEN (IF IsInf(b) THEN NaN
                           ELSE Inf(ISgn(a) * (IF b >= 0 THEN 1 ELSE 0 - 1)))
                ELSE IF IsInf(b) THEN 0
                ELSE IF b = 0 THEN (IF a = 0 THEN NaN ELSE Inf(ISgn(a)))
                ELSE Clamp(RDiv(a * SC, b)),
            x, y)

\* comparisons are false as soon as one side is NaN
FLt(x, y) == Strict2(LAMBDA a, b : ~IsNan(a) /\ ~IsNan(b) /\ a < b, x, y)
FGt(x, y) == Strict2(LAMBDA a, b : ~IsNan(a) /\ ~IsNan(b) /\ a > b, x, y)
FEq(x, y) == Strict2(LAMBDA a, b : ~IsNan(a) /\ ~IsNan(b) /\ a = b, x, y)
FLe(x, y) == Strict2(LAMBDA a, b : ~IsNan(a) /\ ~IsNan(b) /\ a <= b, x, y)

\* ------------------------------------------------------------------------
\* <cmath>: exp, log, pow, fmod(x, 1.0)
\* ------------------------------------------------------------------------
LN2 == Lit(6931, 10000)

RECURSIVE Pow2(_)
Pow2(k) == IF k <= 0 THEN 1 ELSE 2 * Pow2(k - 1)

\* the terms r^n / n! for n = 1..8, added to acc
RECURSIVE ExpTaylor(_, _, _, _)
ExpTaylor(r, n, term, acc) ==
    IF n > 8 THEN acc
    ELSE Strict2(LAMBDA nt, a : ExpTaylor(r, n + 1, nt, a + nt),
                 RDiv(term * r, SC * n), acc)

MExp(x) ==
    Strict1(LAMBDA a :
                IF IsNan(a) THEN NaN
                ELSE IF a = PInf THEN PInf
                ELSE IF a = NInf THEN 0
                ELSE Strict2(LAMBDA k, acc :
                                 IF k >= 10 THEN PInf
                                 ELSE IF k >= 0 THEN Clamp(acc * Pow2(k))
                                 ELSE IF 0 - k > 12 THEN 0
                                 ELSE RDiv(acc, Pow2(0 - k)),
                             a \div LN2,
                             ExpTaylor(a - (a \div LN2) * LN2, 1, SC, SC)),
            x)

\* the terms z^n / n for n = 1, 3, .. 9, added to acc (term is z^n)
RECURSIVE LnSeries(_, _, _, _)
LnSeries(z2, n, term, acc) ==
    IF n > 9 THEN acc
    ELSE Strict2(LAMBDA nt, a : LnSeries(z2, n + 2, nt, a),
                 RDiv(term * z2, SC), acc + RDiv(term, n))

RECURSIVE LnNorm(_, _)
\* <<mantissa in [SC, 2 SC), binary exponent>> of m * 2^k
LnNorm(m, k) ==
    IF m >= 2 * SC THEN Strict2(LAMBDA a, b : LnNorm(a, b), RDiv(m, 2), k + 1)
    ELSE IF m < SC THEN Strict2(LAMBDA a, b : LnNorm(a, b), m * 2, k - 1)
    ELSE <<m, k>>

MLog(x) ==
    Strict1(LAMBDA a :
                IF IsNan(a) \/ a < 0 THEN NaN
                ELSE IF a = 0 THEN NInf
                ELSE IF a = PInf THEN PInf
                ELSE Strict1(LAMBDA mk :
                                 Strict1(LAMBDA z :
                                             2 * LnSeries(RDiv(z * z, SC), 1, z, 0)
                                                 + mk[2] * LN2,
                                         RDiv((mk[1] - SC) * SC, mk[1] + SC)),
                             LnNorm(a, 0)),
            x)

RECURSIVE ISqrt(_, _, _)
\* largest r in a..b with r * r <= n, by bisection (a * a <= n)
ISqrt(n, a, b) ==
    IF a >= b THEN a
    ELSE Strict1(LAMBDA mid : IF mid * mid <= n THEN ISqrt(n, mid, b)
                              ELSE ISqrt(n, a, mid - 1),
                 (a + b + 1) \div 2)

MSqrt(x) ==
    Strict1(LAMBDA a :
                IF IsNan(a) \/ a < 0 THEN NaN
                ELSE IF a = PInf THEN PInf
                ELSE ISqrt(a * SC, 0, 40 * SC),
            x)

RECURSIVE PowInt(_, _)
PowInt(x, n) ==
    IF n = 0 THEN SC
    ELSE IF n > 0 THEN FMul(PowInt(x, n - 1), x)
    ELSE FDiv(PowInt(x, n + 1), x)

\* fmod(p, 1.0) == 0
IsInteger(p) == p % SC = 0

\* pow(x, p) for the exponents of the model: integers and odd multiples of 1/2
MPow(x, p) ==
    Strict1(LAMBDA a : IF IsInteger(p) THEN PowInt(a, p \div SC)
                       ELSE Strict1(LAMBDA rt : PowInt(rt, (2 * p) \div SC), MSqrt(a)),
            x)


\* ------------------------------------------------------------------------
\* details::Function<T>, details::max_iterations<T>(),
\* details::max_segments_number<T>(), runtime::reference::pwl
\* ------------------------------------------------------------------------
\* details::Function<T>::get_value
get_value(fun, x) ==
    CASE fun.kind = "Sigmoid"  -> FDiv(SC, FAdd(SC, MExp(FNeg(x))))
      [] fun.kind = "Tanh"     -> FSub(SC, FDiv(2 * SC, FAdd(MExp(FMul(2 * SC, x)), SC)))
      [] fun.kind = "SoftSign" -> Strict1(LAMBDA a : FDiv(a, FAdd(SC, FAbs(a))), x)
      [] fun.kind = "Exp"      -> MExp(x)
      [] fun.kind = "Log"      -> MLog(x)
      [] fun.kind = "Power"    -> MPow(FAdd(FMul(fun.scale, x), fun.shift), fun.m_exponent)

\* details::Function<T>::first_derivative
first_derivative(fun, x) ==
    CASE fun.kind = "Sigmoid"  -> Strict1(LAMBDA v : FMul(v, FSub(SC, v)), get_value(fun, x))
      [] fun.kind = "Tanh"     -> Strict1(LAMBDA v : FSub(SC, FMul(v, v)), get_value(fun, x))
      [] fun.kind = "SoftSign" -> Strict1(LAMBDA q : FDiv(SC, FMul(q, q)), FAdd(SC, FAbs(x)))
      [] fun.kind = "Exp"      -> MExp(x)
      [] fun.kind = "Log"      -> FDiv(SC, x)
      [] fun.kind = "Power"    ->
            FMul(FMul(fun.m_exponent, fun.scale),
                 MPow(FAdd(FMul(fun.scale, x), fun.shift), fun.m_exponent - SC))

max_iterations(kind) ==
    IF kind = "Log" THEN MaxIterDefault + MaxIterLogExtra ELSE MaxIterDefault

max_segments_number(kind) == MaxSegments

\* index (1-based) of the segment of a segment sequence used for the input x:
\* the last value-producing entry whose alpha is <= x, the first one below alpha_0
RECURSIVE SegIndex(_, _, _)
SegIndex(segs, x, i) ==
    IF i >= Len(segs) - 1 THEN i
    ELSE IF FLt(x, segs[i + 1].alpha) THEN i
    ELSE SegIndex(segs, x, i + 1)

\* runtime::reference::pwl for one input
PwlEval(segs, x) ==
    Strict1(LAMBDA k : FAdd(FMul(segs[k].m, x), segs[k].b), SegIndex(segs, x, 1))

\* ------------------------------------------------------------------------
\* transpose_to_pwl.cpp
\* ------------------------------------------------------------------------
EXP_BREAK == Lit(45, 1000)
threshold == Lit(1, 10)
samples == 500

get_break_bound(kind) == IF kind = "Exp" THEN EXP_BREAK ELSE 0

\* the comparisons with the break bound made inclusive (variant for C15)
split_searchInclusive(kind, lb, ub) ==
    IF FGt(lb, ub) THEN FALSE
    ELSE IF kind \in {"Sigmoid", "Tanh", "SoftSign", "Exp", "Power"}
         THEN FLe(lb, get_break_bound(kind)) /\ FLe(get_break_bound(kind), ub)
    ELSE FALSE

split_search(kind, lb, ub) ==
    IF FGt(lb, ub) THEN FALSE
    ELSE IF kind \in {"Sigmoid", "Tanh", "SoftSign", "Exp", "Power"}
         THEN FLt(lb, get_break_bound(kind)) /\ FGt(ub, get_break_bound(kind))
    ELSE FALSE

is_negative(fun, ub) ==
    IF fun.kind \in {"Sigmoid", "Tanh", "SoftSign"} THEN FEq(ub, 0)
    ELSE IF fun.kind = "Exp" THEN TRUE
    ELSE IF fun.kind = "Power" THEN IsInteger(fun.m_exponent)
    ELSE FALSE

\* the allowed error read as an accuracy, 1 - allowed (variant for C16)
max_errorAsAccuracy(fun, allowed) == FSub(SC, allowed)

max_error(fun, allowed) == allowed

negative_pwl(data) ==
    [k \in 1..Len(data) |-> [alpha |-> data[k].alpha, m |-> FNeg(data[k].m), b |-> FNeg(data[k].b)]]

\* std::vector<double>::resize: truncate, or extend with zeros
Resize(s, n) ==
    IF Len(s) >= n THEN SubSeq(s, 1, n)
    ELSE s \o [k \in 1..(n - Len(s)) |-> 0]

\* v[c] = x for a 0-based column c
Put(s, c, x) == [s EXCEPT ![c + 1] = x]


\* ------------------------------------------------------------------------
\* State
\* ------------------------------------------------------------------------
VARIABLES
    node,               \* the matched node: [type, exponent]
    fun,                \* details::Function<T> built for the node
    lower_bound,        \* arguments of the outermost pwl_search
    upper_bound,
    allowed_err_pct,
    pc,                 \* position of the control flow
    half,               \* which pwl_search call is active: "whole", "left", "right"
    lo, hi,             \* lower_bound / upper_bound of the active pwl_search call
    pwl,                \* local pwl of the active pwl_search call
    pwl1,               \* pwl of the outer call while the right half is searched
    err_pct1,           \* err_pct1 of the outer call
    err_pct,            \* err_pct of the active call
    segments_number,
    negative,
    err,                \* value returned by pivot_search (epsilon_final)
    N, j, Delta, same_epsilon,
    max_epsilon, max_epsilon_prev, min_epsilon,
    t, alpha, epsilon, d,
    segments,           \* transpose_to_pwl: the vector returned by pwl_search
    thrown,             \* the exception leaving transpose_to_pwl, "none" when there is none
    retval,             \* return value of transpose_to_pwl: "none", "true", "false"
    graph,              \* the node in the graph: the original node or the Pwl node
    tried,              \* history: <<n, err_pct>> of every calculate_error_pct of the active call
    prev                \* history: <<>>, or the one state an earlier transpose_to_pwl ended in

vars == <<node, fun, lower_bound, upper_bound, allowed_err_pct, pc, half, lo, hi,
          pwl, pwl1, err_pct1, err_pct, segments_number, negative, err,
          N, j, Delta, same_epsilon, max_epsilon, max_epsilon_prev, min_epsilon,
          t, alpha, epsilon, d, segments, thrown, retval, graph, tried, prev>>

inputVars == <<node, fun, lower_bound, upper_bound, allowed_err_pct, prev>>
pivotVars == <<N, j, Delta, same_epsilon, max_epsilon, max_epsilon_prev, min_epsilon,
               t, alpha, epsilon, d>>
outerVars == <<half, lo, hi, pwl1, err_pct1>>
topVars   == <<segments, thrown, retval, graph>>

\* ------------------------------------------------------------------------
\* pivot_search
\* ------------------------------------------------------------------------
alpha_0 == lo
alpha_N == hi
sgn == IF negative THEN 0 - SC ELSE SC

\* a function as the table of its values: each value is computed once
Table(f) == f @@ <<>>

\* Box #1: the seed of t[i]
Seed(n, a0, aN, i) == FAdd(a0, FMul(FDiv(Lit(i + 1, 1), Lit(n + 1, 1)), FSub(aN, a0)))

\* Box #2: column j of alpha, from column j of t (tj), v[i] = get_value(t[i][j]) and
\* dv[i] = first_derivative(t[i][j])
Box2(tj, v, dv) ==
    [i \in 0..N |->
        IF i = 0 THEN alpha_0
        ELSE IF i = N THEN alpha_N
        ELSE FDiv(FSub(FAdd(FSub(v[i - 1], v[i]), FMul(dv[i], tj[i])),
                       FMul(dv[i - 1], tj[i - 1])),
                  FSub(dv[i], dv[i - 1]))]

\* Box #3: column j of epsilon; al is column j of alpha and va[i] = get_value(alpha[i][j])
Box3(tj, v, dv, al, va) ==
    [i \in 0..N |->
        LET k == IF i < N THEN i ELSE N - 1
        IN  FMul(sgn, FSub(FAdd(FMul(dv[k], FSub(al[i], tj[k])), v[k]), va[i]))]

\* test for completion: the running maximum and minimum of fabs(epsilon[i][j])
RECURSIVE MaxEps(_, _, _)
MaxEps(ep, i, m) ==
    IF i > N THEN m
    ELSE Strict1(LAMBDA nm : MaxEps(ep, i + 1, nm),
                 IF FGt(FAbs(ep[i]), m) THEN FAbs(ep[i]) ELSE m)
RECURSIVE MinEps(_, _, _)
MinEps(ep, i, m) ==
    IF i > N THEN m
    ELSE Strict1(LAMBDA nm : MinEps(ep, i + 1, nm),
                 IF FLt(FAbs(ep[i]), m) THEN FAbs(ep[i]) ELSE m)

\* Box #2, Box #3 and the maximum and minimum of the pass on column j
Pass ==
    Strict1(LAMBDA tj :
      Strict2(LAMBDA v, dv :
        Strict1(LAMBDA al :
          Strict1(LAMBDA va :
            Strict1(LAMBDA ep :
                      [t |-> tj, value |-> v, derivative |-> dv, alpha |-> al, epsilon |-> ep,
                       max_epsilon |-> MaxEps(ep, 1, FAbs(ep[0])),
                       min_epsilon |-> MinEps(ep, 1, FAbs(ep[0]))],
                    Table(Box3(tj, v, dv, al, va))),
            Table([i \in 0..N |-> get_value(fun, al[i])])),
          Table(Box2(tj, v, dv))),
        Table([i \in 0..(N - 1) |-> get_value(fun, tj[i])]),
        Table([i \in 0..(N - 1) |-> first_derivative(fun, tj[i])])),
      Table([i \in 0..(N - 1) |-> t[i][j + 1]]))

\* std::isnan(epsilon[i][j]) for some i, and the first such i
EpsHasNan(ps) == \E i \in 0..N : IsNan(ps.epsilon[i])
FirstNan(ps) ==
    CHOOSE i \in 0..N : IsNan(ps.epsilon[i]) /\ \A k \in 0..(i - 1) : ~IsNan(ps.epsilon[k])

\* the spread test with "<=" for "<" (variant for C29)
SpreadTestInclusive(ps) ==
    FLe(FSub(ps.max_epsilon, ps.min_epsilon), FMul(threshold, ps.min_epsilon))

SpreadTest(ps) ==
    FLt(FSub(ps.max_epsilon, ps.min_epsilon), FMul(threshold, ps.min_epsilon))
\* a completion test that gives way to the regress handling: a pass whose
\* max_epsilon went up is not complete (variant for C28)
CompletionAfterRegress(ps) ==
    /\ j = max_iterations(fun.kind) \/ SpreadTest(ps)
    /\ ~(j > 0 /\ FGt(ps.max_epsilon, max_epsilon))

\* a completion test that leaves the iteration cap out (variant for C19)
CompletionOnSpread(ps) == SpreadTest(ps)

Completion(ps) == j = max_iterations(fun.kind) \/ SpreadTest(ps)

EpsilonFinal(ps) == FDiv(FAdd(ps.max_epsilon, ps.min_epsilon), Lit(4, 1))

\* the segment emitted for index i < N
Segment(ps, epsilon_final, i) ==
    Strict2(LAMBDA val, val_next :
              Strict1(LAMBDA m : [alpha |-> ps.alpha[i], m |-> m,
                                  b |-> FSub(val, FMul(m, ps.alpha[i]))],
                      FDiv(FSub(val_next, val), FSub(ps.alpha[i + 1], ps.alpha[i]))),
            FSub(FAdd(FMul(FMul(sgn, ps.derivative[i]), FSub(ps.alpha[i], ps.t[i])),
                      FMul(sgn, ps.value[i])),
                 epsilon_final),
            FSub(FAdd(FMul(FMul(sgn, ps.derivative[i]), FSub(ps.alpha[i + 1], ps.t[i])),
                      FMul(sgn, ps.value[i])),
                 epsilon_final))

\* Result with the terminal entry taken one index too low (variant for C4)
ResultShortTerminal(ps) ==
    Strict1(LAMBDA epsilon_final :
              [k \in 1..(N + 1) |->
                  IF k <= N THEN Segment(ps, epsilon_final, k - 1)
                  ELSE [alpha |-> ps.alpha[N - 1], m |-> 0, b |-> 0]],
            EpsilonFinal(ps))

\* result: the N segments and the terminal entry
Result(ps) ==
    Strict1(LAMBDA epsilon_final :
              [k \in 1..(N + 1) |->
                  IF k <= N THEN Segment(ps, epsilon_final, k - 1)
                  ELSE [alpha |-> ps.alpha[N], m |-> 0, b |-> 0]],
            EpsilonFinal(ps))

\* the arrays after Box #2 and Box #3 of a pass that meets no NaN
AlphaAfter(ps) == [i \in 0..N |-> Put(Resize(alpha[i], j + 1), j, ps.alpha[i])]
EpsilonAfter(ps) == [i \in 0..N |-> Put(Resize(epsilon[i], j + 1), j, ps.epsilon[i])]

\* the arrays when the pass throws at index FirstNan: the later indices are not reached
EpsilonPartial(ps) ==
    [i \in 0..N |-> IF i <= FirstNan(ps) THEN Put(Resize(epsilon[i], j + 1), j, ps.epsilon[i])
                    ELSE epsilon[i]]

\* a regress handling that goes back only on a repeated equality (variant for C22)
RevertOnTieOnly(ps) ==
    /\ j > 0
    /\ FEq(ps.max_epsilon, max_epsilon) /\ same_epsilon

\* a regress handling that goes back on every equality, flag or no flag (variant
\* for C23)
RevertOnAnyTie(ps) ==
    /\ j > 0
    /\ ~FLt(ps.max_epsilon, max_epsilon)
    /\ ~IsNan(ps.max_epsilon) /\ ~IsNan(max_epsilon)

\* regress handling: TRUE when the pass goes back one column
Revert(ps) ==
    /\ j > 0
    /\ \/ FGt(ps.max_epsilon, max_epsilon)
       \/ FEq(ps.max_epsilon, max_epsilon) /\ same_epsilon

SameAfter(ps) ==
    IF j > 0 /\ ~FGt(ps.max_epsilon, max_epsilon) /\ FEq(ps.max_epsilon, max_epsilon)
    THEN ~same_epsilon ELSE same_epsilon

\* Box #4 reading t at its first column whatever the column of the pass (variant
\* for C24)
Box4FromFirstColumn(dl, al, ep, jj) ==
    [i \in 0..(N - 1) |->
        FDiv(FMul(dl, FSub(ep[i + 1][jj + 1], ep[i][jj + 1])),
             FAdd(FDiv(ep[i + 1][jj + 1], FSub(al[i + 1][jj + 1], t[i][1])),
                  FDiv(ep[i][jj + 1], FSub(t[i][1], al[i][jj + 1]))))]

\* Box #4: column jj of d, with the step Delta dl and the arrays al, ep of the pass
Box4(dl, al, ep, jj) ==
    [i \in 0..(N - 1) |->
        FDiv(FMul(dl, FSub(ep[i + 1][jj + 1], ep[i][jj + 1])),
             FAdd(FDiv(ep[i + 1][jj + 1], FSub(al[i + 1][jj + 1], t[i][jj + 1])),
                  FDiv(ep[i][jj + 1], FSub(t[i][jj + 1], al[i][jj + 1]))))]

\* pivot_search with a step multiplier that outlives the call, as a static local
\* would (variant for C17)
PivotInitKeepsDelta(n, a0, aN) ==
    /\ N' = n
    /\ j' = 0
    /\ Delta' = Delta
    /\ same_epsilon' = FALSE
    /\ max_epsilon' = 0
    /\ UNCHANGED <<max_epsilon_prev, min_epsilon>>
    /\ t' = [i \in 0..n |-> IF i < n THEN <<Seed(n, a0, aN, i)>> ELSE <<>>]
    /\ alpha' = [i \in 0..n |-> <<>>]
    /\ epsilon' = [i \in 0..n |-> <<>>]
    /\ d' = [i \in 0..n |-> <<>>]

\* start of pivot_search for n segments over [a0, aN]: max_epsilon_prev and
\* min_epsilon are declared without a value and keep what the memory held
PivotInit(n, a0, aN) ==
    /\ N' = n
    /\ j' = 0
    /\ Delta' = SC
    /\ same_epsilon' = FALSE
    /\ max_epsilon' = 0
    /\ UNCHANGED <<max_epsilon_prev, min_epsilon>>
    /\ t' = [i \in 0..n |-> IF i < n THEN <<Seed(n, a0, aN, i)>> ELSE <<>>]
    /\ alpha' = [i \in 0..n |-> <<>>]
    /\ epsilon' = [i \in 0..n |-> <<>>]
    /\ d' = [i \in 0..n |-> <<>>]


\* the range error caught inside pwl_search and answered with one more segment
\* (variant for C11)
PivotThrowRangeRetried ==
    /\ pc = "pivot"
    /\ \E ps \in {Pass} :
         /\ EpsHasNan(ps)
         /\ alpha' = AlphaAfter(ps)
         /\ epsilon' = EpsilonPartial(ps)
    /\ thrown' = "OutOfRange"
    /\ err_pct' = PInf
    /\ pc' = "loop"
    /\ UNCHANGED <<inputVars, outerVars, pwl, segments_number, negative, err,
                   N, j, Delta, same_epsilon, max_epsilon, max_epsilon_prev, min_epsilon,
                   t, d, segments, retval, graph, tried>>

\* a NaN in column j of epsilon: "The value is out of range."
PivotThrowRange ==
    /\ pc = "pivot"
    /\ \E ps \in {Pass} :
         /\ EpsHasNan(ps)
         /\ alpha' = AlphaAfter(ps)
         /\ epsilon' = EpsilonPartial(ps)
    /\ thrown' = "OutOfRange"
    /\ pc' = "thrown"
    /\ UNCHANGED <<inputVars, outerVars, pwl, err_pct, segments_number, negative, err,
                   N, j, Delta, same_epsilon, max_epsilon, max_epsilon_prev, min_epsilon,
                   t, d, segments, retval, graph, tried>>

\* the completion test holds before the iteration cap: the segments are returned
PivotReturn ==
    /\ pc = "pivot"
    /\ j # max_iterations(fun.kind)
    /\ \E ps \in {Pass} :
         /\ ~EpsHasNan(ps)
         /\ Completion(ps)
         /\ alpha' = AlphaAfter(ps)
         /\ epsilon' = EpsilonAfter(ps)
         /\ max_epsilon' = ps.max_epsilon
         /\ min_epsilon' = ps.min_epsilon
         /\ pwl' = Result(ps)
         /\ err' = EpsilonFinal(ps)
    /\ max_epsilon_prev' = max_epsilon
    /\ pc' = "error_pct"
    /\ UNCHANGED <<inputVars, outerVars, err_pct, segments_number, negative,
                   N, j, Delta, same_epsilon, t, d, topVars, tried>>

\* the completion test holds with j at the cap: "Failed to converge in pivot_search!"
PivotNotConverged ==
    /\ pc = "pivot"
    /\ j = max_iterations(fun.kind)
    /\ \E ps \in {Pass} :
         /\ ~EpsHasNan(ps)
         /\ Completion(ps)
         /\ alpha' = AlphaAfter(ps)
         /\ epsilon' = EpsilonAfter(ps)
         /\ max_epsilon' = ps.max_epsilon
         /\ min_epsilon' = ps.min_epsilon
         /\ pwl' = Result(ps)
    /\ max_epsilon_prev' = max_epsilon
    /\ thrown' = "PivotNotConverged"
    /\ pc' = "thrown"
    /\ UNCHANGED <<inputVars, outerVars, err_pct, segments_number, negative, err,
                   N, j, Delta, same_epsilon, t, d, segments, retval, graph, tried>>

\* the pass with a regress handling that goes back one column and keeps the step
\* Delta as it is (variant for C18)
PivotDescendSameStep ==
    /\ pc = "pivot"
    /\ \E ps \in {Pass} :
         /\ ~EpsHasNan(ps)
         /\ ~Completion(ps)
         /\ \E jj \in {IF Revert(ps) THEN j - 1 ELSE j},
               dl \in {Delta},
               al \in {Table(AlphaAfter(ps))},
               ep \in {Table(EpsilonAfter(ps))} :
              \E dj \in {Table(Box4(dl, al, ep, jj))} :
                 /\ alpha' = al
                 /\ epsilon' = ep
                 /\ d' = [i \in 0..N |->
                            IF i < N THEN Put(Resize(d[i], jj + 1), jj, dj[i]) ELSE d[i]]
                 /\ t' = [i \in 0..N |->
                            IF i < N
                            THEN Put(Resize(t[i], jj + 2), jj + 1, FAdd(t[i][jj + 1], dj[i]))
                            ELSE Resize(t[i], jj + 2)]
                 /\ j' = jj + 1
                 /\ Delta' = dl
         /\ same_epsilon' = SameAfter(ps)
         /\ max_epsilon' = ps.max_epsilon
         /\ min_epsilon' = ps.min_epsilon
    /\ max_epsilon_prev' = max_epsilon
    /\ UNCHANGED <<inputVars, outerVars, pc, pwl, err_pct, segments_number, negative, err,
                   N, topVars, tried>>

\* the pass with a revert that forgets the max_epsilon of the rejected attempt, so
\* that the retry is compared with the pass before it (variant for C27)
PivotDescendForgetsAttempt ==
    /\ pc = "pivot"
    /\ \E ps \in {Pass} :
         /\ ~EpsHasNan(ps)
         /\ ~Completion(ps)
         /\ \E jj \in {IF Revert(ps) THEN j - 1 ELSE j},
               dl \in {IF Revert(ps) THEN FDiv(Delta, Lit(2, 1)) ELSE Delta},
               al \in {Table(AlphaAfter(ps))},
               ep \in {Table(EpsilonAfter(ps))} :
              \E dj \in {Table(Box4(dl, al, ep, jj))} :
                 /\ alpha' = al
                 /\ epsilon' = ep
                 /\ d' = [i \in 0..N |->
                            IF i < N THEN Put(Resize(d[i], jj + 1), jj, dj[i]) ELSE d[i]]
                 /\ t' = [i \in 0..N |->
                            IF i < N
                            THEN Put(Resize(t[i], jj + 2), jj + 1, FAdd(t[i][jj + 1], dj[i]))
                            ELSE Resize(t[i], jj + 2)]
                 /\ j' = jj + 1
                 /\ Delta' = dl
         /\ same_epsilon' = SameAfter(ps)
         /\ max_epsilon' = (IF Revert(ps) THEN max_epsilon ELSE ps.max_epsilon)
         /\ min_epsilon' = ps.min_epsilon
    /\ max_epsilon_prev' = max_epsilon
    /\ UNCHANGED <<inputVars, outerVars, pc, pwl, err_pct, segments_number, negative, err,
                   N, topVars, tried>>

\* no completion: regress handling, Box #4, Box #5, j = j + 1
PivotDescend ==
    /\ pc = "pivot"
    /\ \E ps \in {Pass} :
         /\ ~EpsHasNan(ps)
         /\ ~Completion(ps)
         /\ \E jj \in {IF Revert(ps) THEN j - 1 ELSE j},
               dl \in {IF Revert(ps) THEN FDiv(Delta, Lit(2, 1)) ELSE Delta},
               al \in {Table(AlphaAfter(ps))},
               ep \in {Table(EpsilonAfter(ps))} :
              \E dj \in {Table(Box4(dl, al, ep, jj))} :
                 /\ alpha' = al
                 /\ epsilon' = ep
                 /\ d' = [i \in 0..N |->
                            IF i < N THEN Put(Resize(d[i], jj + 1), jj, dj[i]) ELSE d[i]]
                 /\ t' = [i \in 0..N |->
                            IF i < N
                            THEN Put(Resize(t[i], jj + 2), jj + 1, FAdd(t[i][jj + 1], dj[i]))
                            ELSE Resize(t[i], jj + 2)]
                 /\ j' = jj + 1
                 /\ Delta' = dl
         /\ same_epsilon' = SameAfter(ps)
         /\ max_epsilon' = ps.max_epsilon
         /\ min_epsilon' = ps.min_epsilon
    /\ max_epsilon_prev' = max_epsilon
    /\ UNCHANGED <<inputVars, outerVars, pc, pwl, err_pct, segments_number, negative, err,
                   N, topVars, tried>>

\* ------------------------------------------------------------------------
\* calculate_error_pct
\* ------------------------------------------------------------------------
\* a sample spacing that puts the last sample on the upper bound (variant for C26)
SampleDeltaToUpper(lb, ub) == FDiv(FSub(ub, lb), Lit(samples - 1, 1))

SampleDelta(lb, ub) == FDiv(FSub(ub, lb), Lit(samples + 1, 1))
SampleIn(lb, ub, i) == FAdd(lb, FMul(Lit(i, 1), SampleDelta(lb, ub)))

SampleErr(f, segs, x, neg) ==
    Strict1(LAMBDA in : FAbs(FSub(get_value(f, in),
                                  FMul(IF neg THEN 0 - SC ELSE SC, PwlEval(segs, in)))),
            x)

\* the loop "if (err > max_err) max_err = err" over the samples, entered with max_err:
\* a NaN max_err is never replaced and a NaN err never taken, so the loop ends with
\* the largest of max_err and the errors that are not NaN
MaxErr(f, segs, lb, ub, neg, max_err) ==
    IF IsNan(max_err) THEN NaN
    ELSE LET errs == {SampleErr(f, segs, SampleIn(lb, ub, i), neg) : i \in 0..(samples - 1)}
             cand == {max_err} \cup {e \in errs : ~IsNan(e)}
         IN  CHOOSE e \in cand : \A x \in cand : x <= e

calculate_error_pct(f, segs, lb, ub, neg) ==
    IF FLt(SampleDelta(lb, ub), 0) THEN 0
    ELSE MaxErr(f, segs, lb, ub, neg, SampleErr(f, segs, lb, neg))

\* ------------------------------------------------------------------------
\* pwl_search(activation_function, lower_bound, upper_bound, allowed_err_pct, err_pct)
\* ------------------------------------------------------------------------
\* the test of the active call with its operands swapped (variant for C9)
LowerAboveUpperSwapped == FGt(hi, lo)

\* the test "lower_bound > upper_bound" of the active call
LowerAboveUpper == FGt(lo, hi)

\* lower_bound > upper_bound: the empty vector is returned
PwlSearchEmpty ==
    /\ pc = "pwl_search"
    /\ LowerAboveUpper
    /\ pwl' = <<>>
    /\ pc' = "return"
    /\ UNCHANGED <<inputVars, outerVars, err_pct, segments_number, negative, err,
                   pivotVars, topVars, tried>>

\* the split path: the left half is searched first
PwlSearchSplit ==
    /\ pc = "pwl_search"
    /\ ~LowerAboveUpper
    /\ split_search(fun.kind, lo, hi)
    /\ half' = "left"
    /\ lo' = lo
    /\ hi' = get_break_bound(fun.kind)
    /\ pwl' = <<>>
    /\ err_pct1' = 0
    /\ err_pct' = 0
    /\ tried' = <<>>
    /\ pc' = "pwl_search"
    /\ UNCHANGED <<inputVars, pwl1, segments_number, negative, err, pivotVars, topVars>>

\* the non-split path: segments_number = 1 and the first pivot_search
PwlSearchSingle ==
    /\ pc = "pwl_search"
    /\ ~LowerAboveUpper
    /\ ~split_search(fun.kind, lo, hi)
    /\ segments_number' = 1
    /\ negative' = is_negative(fun, hi)
    /\ PivotInit(1, lo, hi)
    /\ pwl' = <<>>
    /\ tried' = <<>>
    /\ pc' = "pivot"
    /\ UNCHANGED <<inputVars, outerVars, err_pct, err, topVars>>

\* err_pct = calculate_error_pct(...) after a pivot_search that returned
CalculateErrorPct ==
    /\ pc = "error_pct"
    /\ err_pct' = calculate_error_pct(fun, pwl, lo, hi, negative)
    /\ tried' = Append(tried, <<segments_number, err_pct'>>)
    /\ pc' = "loop"
    /\ UNCHANGED <<inputVars, outerVars, pwl, segments_number, negative, err,
                   pivotVars, topVars>>

\* the loop condition testing the value returned by pivot_search instead of the
\* sampled error (variant for C2)
LoopConditionOnEpsilon ==
    /\ segments_number < max_segments_number(fun.kind)
    /\ FLt(max_error(fun, allowed_err_pct), err)

LoopCondition ==
    /\ segments_number < max_segments_number(fun.kind)
    /\ FLt(max_error(fun, allowed_err_pct), err_pct)

\* the body of the while loop: one more segment
LoopGrow ==
    /\ pc = "loop"
    /\ LoopCondition
    /\ segments_number' = segments_number + 1
    /\ PivotInit(segments_number + 1, lo, hi)
    /\ pc' = "pivot"
    /\ UNCHANGED <<inputVars, outerVars, pwl, err_pct, negative, err, topVars, tried>>

\* the failure recorded but the segments returned all the same (variant for C10)
LoopExitLogged ==
    /\ pc = "loop"
    /\ ~LoopCondition
    /\ segments_number >= max_segments_number(fun.kind)
    /\ thrown' = "PwlNotConverged"
    /\ pc' = "return"
    /\ UNCHANGED <<inputVars, outerVars, pwl, err_pct, segments_number, negative, err,
                   pivotVars, segments, retval, graph, tried>>

\* after the loop: "Failed to converge in pwl_search!"
LoopExitThrow ==
    /\ pc = "loop"
    /\ ~LoopCondition
    /\ segments_number >= max_segments_number(fun.kind)
    /\ thrown' = "PwlNotConverged"
    /\ pc' = "thrown"
    /\ UNCHANGED <<inputVars, outerVars, pwl, err_pct, segments_number, negative, err,
                   pivotVars, segments, retval, graph, tried>>

\* after the loop: return pwl
LoopExitReturn ==
    /\ pc = "loop"
    /\ ~LoopCondition
    /\ segments_number < max_segments_number(fun.kind)
    /\ pc' = "return"
    /\ UNCHANGED <<inputVars, outerVars, pwl, err_pct, segments_number, negative, err,
                   pivotVars, topVars, tried>>

\* the left half has returned: negative_pwl(pwl), then the right half is searched
ReturnLeft ==
    /\ pc = "return"
    /\ half = "left"
    /\ pwl1' = negative_pwl(pwl)
    /\ err_pct1' = err_pct
    /\ half' = "right"
    /\ lo' = get_break_bound(fun.kind)
    /\ hi' = upper_bound
    /\ pwl' = <<>>
    /\ err_pct' = 0
    /\ pc' = "pwl_search"
    /\ UNCHANGED <<inputVars, segments_number, negative, err, pivotVars, topVars, tried>>

\* the merge reporting the larger of the two errors (variant for C25)
ReturnRightLargerError ==
    /\ pc = "return"
    /\ half = "right"
    /\ LET pwl2  == IF fun.kind \in {"Exp", "Power"} THEN negative_pwl(pwl) ELSE pwl
           first == IF pwl1 # <<>> THEN SubSeq(pwl1, 1, Len(pwl1) - 1) ELSE pwl1
       IN  pwl' = first \o pwl2
    /\ err_pct' = (IF FGt(err_pct1, err_pct) THEN err_pct1 ELSE err_pct)
    /\ half' = "whole"
    /\ lo' = lower_bound
    /\ hi' = upper_bound
    /\ pc' = "return"
    /\ UNCHANGED <<inputVars, pwl1, err_pct1, segments_number, negative, err,
                   pivotVars, topVars, tried>>

\* the merge without pwl.pop_back() (variant for C5)
ReturnRightKeepTerminal ==
    /\ pc = "return"
    /\ half = "right"
    /\ LET pwl2 == IF fun.kind \in {"Exp", "Power"} THEN negative_pwl(pwl) ELSE pwl
       IN  pwl' = pwl1 \o pwl2
    /\ err_pct' = FDiv(FAdd(err_pct1, err_pct), Lit(2, 1))
    /\ half' = "whole"
    /\ lo' = lower_bound
    /\ hi' = upper_bound
    /\ pc' = "return"
    /\ UNCHANGED <<inputVars, pwl1, err_pct1, segments_number, negative, err,
                   pivotVars, topVars, tried>>

\* the right half has returned: merge, and the outer call returns
ReturnRight ==
    /\ pc = "return"
    /\ half = "right"
    /\ LET pwl2  == IF fun.kind \in {"Exp", "Power"} THEN negative_pwl(pwl) ELSE pwl
           first == IF pwl1 # <<>> THEN SubSeq(pwl1, 1, Len(pwl1) - 1) ELSE pwl1
       IN  pwl' = first \o pwl2
    /\ err_pct' = FDiv(FAdd(err_pct1, err_pct), Lit(2, 1))
    /\ half' = "whole"
    /\ lo' = lower_bound
    /\ hi' = upper_bound
    /\ pc' = "return"
    /\ UNCHANGED <<inputVars, pwl1, err_pct1, segments_number, negative, err,
                   pivotVars, topVars, tried>>

\* the outermost call returns to transpose_to_pwl
ReturnWhole ==
    /\ pc = "return"
    /\ half = "whole"
    /\ segments' = pwl
    /\ pc' = "segments"
    /\ UNCHANGED <<inputVars, outerVars, pwl, err_pct, segments_number, negative, err,
                   pivotVars, thrown, retval, graph, tried>>


\* ------------------------------------------------------------------------
\* pwl_search(node, allowed_err_pct, err_pct) and transpose_to_pwl(node, allowed_err_pct)
\* ------------------------------------------------------------------------
\* static_cast<double>(std::numeric_limits<int32_t>::min()) and ...::max(): the two
\* values are only stored and copied, never computed with, and are kept unscaled
INT32_MAX_D == 2147483647
INT32_MIN_D == 0 - INT32_MAX_D - 1

\* details::are_floats_equal(exponent, 1.0)
are_floats_equal(a, b) == FEq(a, b)

\* the element types get_exponent is tried with, in the order of the tuple
ExponentTypes == <<"i32", "i64", "u32", "u64", "f16", "f32", "f64">>

\* get_exponent(tuple, constant, exponent): "matched" when one type of the tuple is the
\* element type of the constant and the constant holds one value, "size" when the type
\* matches and get_exponent<T> throws on the size, "unsupported" when no type matches,
\* "null" when the constant is a null pointer and get_element_type() is called on it
RECURSIVE get_exponent(_, _)
get_exponent(k, nd) ==
    IF nd.element_type = "null" THEN "null"
    ELSE IF k > Len(ExponentTypes) THEN "unsupported"
    ELSE IF nd.element_type = ExponentTypes[k]
         THEN (IF nd.size = 0 \/ nd.size > 1 THEN "size" ELSE "matched")
    ELSE get_exponent(k + 1, nd)

\* the node types of the tuple the matcher callback dispatches on, in its order
DispatchTypes == <<"Sigmoid", "Tanh", "Exp", "Power", "PowerIE", "Log", "SoftSign">>

\* a dispatch whose casts succeed for any node (variant for C20)
DispatchAny(nd) == TRUE

\* transpose_to_pwl(tuple, node, allowed_err_pct): TRUE when std::dynamic_pointer_cast
\* succeeds for one type of the tuple
Dispatch(nd) == \E k \in 1..Len(DispatchTypes) : nd.type = DispatchTypes[k]

\* no type of the tuple is the type of the node: the dispatch returns false and the
\* node stays in the graph
DispatchNoMatch ==
    /\ pc = "transpose_to_pwl"
    /\ ~Dispatch(node)
    /\ retval' = "false"
    /\ pc' = "done"
    /\ UNCHANGED <<inputVars, outerVars, pwl, err_pct, segments_number, negative, err,
                   pivotVars, segments, thrown, graph, tried>>

\* the second input of the Power node is no Constant: the cast gives a null pointer
\* and get_exponent calls constant->get_element_type() on it. The behaviour is
\* undefined: the process is killed by the invalid read, or the read yields some
\* element type and size, which no type of the tuple matches or whose size is refused
PwlSearchNullConstant ==
    /\ pc = "transpose_to_pwl"
    /\ node.type = "Power"
    /\ get_exponent(1, node) = "null"
    /\ \E outcome \in {"crashed", "UnsupportedType", "ExponentSize"} :
          /\ pc' = (IF outcome = "crashed" THEN "crashed" ELSE "thrown")
          /\ thrown' = (IF outcome = "crashed" THEN thrown ELSE outcome)
    /\ UNCHANGED <<inputVars, outerVars, pwl, err_pct, segments_number, negative, err,
                   pivotVars, segments, retval, graph, tried>>

\* get_exponent<T> throws "The size of exponents is more than 1."
PwlSearchExponentSize ==
    /\ pc = "transpose_to_pwl"
    /\ node.type = "Power"
    /\ get_exponent(1, node) = "size"
    /\ thrown' = "ExponentSize"
    /\ pc' = "thrown"
    /\ UNCHANGED <<inputVars, outerVars, pwl, err_pct, segments_number, negative, err,
                   pivotVars, segments, retval, graph, tried>>

\* no type of the tuple matches: "The unsupported type of element."
PwlSearchUnsupported ==
    /\ pc = "transpose_to_pwl"
    /\ node.type = "Power"
    /\ get_exponent(1, node) = "unsupported"
    /\ thrown' = "UnsupportedType"
    /\ pc' = "thrown"
    /\ UNCHANGED <<inputVars, outerVars, pwl, err_pct, segments_number, negative, err,
                   pivotVars, segments, retval, graph, tried>>

\* the Power overload takes the identity shortcut
Identity ==
    /\ node.type = "Power"
    /\ get_exponent(1, node) = "matched"
    /\ are_floats_equal(node.exponent, SC)

\* the Power overload: exponent == 1 gives the identity PWL without any search
PwlSearchIdentity ==
    /\ pc = "transpose_to_pwl"
    /\ Identity
    /\ segments' = << [alpha |-> INT32_MIN_D, m |-> SC, b |-> 0],
                      [alpha |-> INT32_MAX_D, m |-> 0, b |-> 0] >>
    /\ pc' = "segments"
    /\ UNCHANGED <<inputVars, outerVars, pwl, err_pct, segments_number, negative, err,
                   pivotVars, thrown, retval, graph, tried>>

\* every other node: the generic pwl_search over the domain of the function
PwlSearchNode ==
    /\ pc = "transpose_to_pwl"
    /\ Dispatch(node)
    /\ node.type = "Power" => get_exponent(1, node) = "matched"
    /\ ~Identity
    /\ half' = "whole"
    /\ lo' = lower_bound
    /\ hi' = upper_bound
    /\ pc' = "pwl_search"
    /\ UNCHANGED <<inputVars, pwl, pwl1, err_pct1, err_pct, segments_number, negative, err,
                   pivotVars, topVars, tried>>

\* segments.size() < 2: the node is left alone
TransposeReject ==
    /\ pc = "segments"
    /\ Len(segments) < 2
    /\ retval' = "false"
    /\ pc' = "done"
    /\ UNCHANGED <<inputVars, outerVars, pwl, err_pct, segments_number, negative, err,
                   pivotVars, segments, thrown, graph, tried>>

\* the arrays m and b built with the terminal entry included (variant for C14)
TransposeReplaceWholeArrays ==
    /\ pc = "segments"
    /\ Len(segments) >= 2
    /\ graph' = [op    |-> "Pwl",
                 m     |-> [k \in 1..Len(segments) |-> segments[k].m],
                 b     |-> [k \in 1..Len(segments) |-> segments[k].b],
                 alpha |-> [k \in 1..Len(segments) |-> segments[k].alpha]]
    /\ retval' = "true"
    /\ pc' = "done"
    /\ UNCHANGED <<inputVars, outerVars, pwl, err_pct, segments_number, negative, err,
                   pivotVars, segments, thrown, tried>>

\* the Pwl node replaces the activation node
TransposeReplace ==
    /\ pc = "segments"
    /\ Len(segments) >= 2
    /\ graph' = [op    |-> "Pwl",
                 m     |-> [k \in 1..(Len(segments) - 1) |-> segments[k].m],
                 b     |-> [k \in 1..(Len(segments) - 1) |-> segments[k].b],
                 alpha |-> [k \in 1..Len(segments) |-> segments[k].alpha]]
    /\ retval' = "true"
    /\ pc' = "done"
    /\ UNCHANGED <<inputVars, outerVars, pwl, err_pct, segments_number, negative, err,
                   pivotVars, segments, thrown, tried>>

\* ------------------------------------------------------------------------
\* Requests
\* ------------------------------------------------------------------------
\* details::Function<T> of a node: Function<T>() for the plain activations,
\* Function<Power>(exponent, 1, 0) for Power, Function<Power>(power, scale, shift) for PowerIE
FunctionOf(nd) ==
    [kind       |-> IF nd.type = "PowerIE" THEN "Power" ELSE nd.type,
     m_exponent |-> nd.exponent,
     scale      |-> IF nd.type = "PowerIE" THEN nd.scale ELSE SC,
     shift      |-> IF nd.type = "PowerIE" THEN nd.shift ELSE 0]

\* a node of one of the plain activation types
Activation(tp) ==
    [type |-> tp, element_type |-> "none", size |-> 0, exponent |-> 0, scale |-> SC, shift |-> 0]

\* a Power node: element type and size of its constant, and the first value of the
\* constant; the element type "null" stands for a second input that is no Constant
Power(et, sz, p) ==
    [type |-> "Power", element_type |-> et, size |-> sz, exponent |-> p, scale |-> SC, shift |-> 0]

\* a PowerIE node: power, scale, shift
PowerIE(p, sc, sh) ==
    [type |-> "PowerIE", element_type |-> "none", size |-> 0, exponent |-> p, scale |-> sc, shift |-> sh]

\* a request: the node, details::lower_bound / details::upper_bound of its function,
\* and the allowed error of the pass
Req(nd, l, u, e) ==
    [node |-> nd, lower_bound |-> l, upper_bound |-> u, allowed_err_pct |-> e]

Requests ==
    { Req(Activation("Sigmoid"), Lit(0 - 4, 1), Lit(4, 1), Lit(1, 20)),
      Req(Activation("Sigmoid"), Lit(0 - 2, 1), 0, Lit(1, 10)),
      Req(Activation("Sigmoid"), 0, Lit(4, 1), Lit(1, 10)),
      Req(Activation("Sigmoid"), Lit(2, 1), Lit(1, 1), Lit(1, 10)),
      Req(Activation("Sigmoid"), Lit(2, 1), Lit(3, 1), Lit(1, 10)),
      Req(Activation("Tanh"), Lit(0 - 4, 1), Lit(4, 1), Lit(1, 10)),
      Req(Activation("Tanh"), 0, Lit(4, 1), Lit(1, 10)),
      Req(Activation("Tanh"), 0, Lit(4, 1), Lit(1, 20)),
      Req(Activation("Tanh"), Lit(1, 1), Lit(1, 1), Lit(1, 10)),
      Req(Activation("Tanh"), Lit(3, 1), Lit(8, 1), Lit(1, 10)),
      Req(Activation("SoftSign"), Lit(0 - 2, 1), Lit(2, 1), Lit(1, 20)),
      Req(Activation("SoftSign"), 0, Lit(2, 1), Lit(1, 10)),
      Req(Activation("Exp"), Lit(0 - 2, 1), 0, Lit(1, 10)),
      Req(Activation("Exp"), Lit(0 - 2, 1), Lit(2, 1), Lit(1, 2)),
      Req(Activation("Exp"), Lit(0 - 2, 1), Lit(2, 1), Lit(1, 20)),
      Req(Activation("Abs"), Lit(0 - 1, 1), Lit(1, 1), Lit(1, 10)),
      Req(Activation("Sign"), Lit(0 - 1, 1), Lit(1, 1), Lit(1, 20)),
      Req(Activation("Log"), 0, Lit(4, 1), Lit(1, 10)),
      Req(Activation("Log"), Lit(0 - 2, 1), Lit(2, 1), Lit(1, 10)),
      Req(Activation("Log"), Lit(1, 2), Lit(4, 1), Lit(1, 10)),
      Req(Activation("Log"), Lit(1, 2), Lit(4, 1), Lit(1, 20)),
      Req(Power("i32", 1, Lit(2, 1)), 0, Lit(4, 1), Lit(1, 2)),
      Req(Power("i64", 1, Lit(2, 1)), Lit(0 - 2, 1), Lit(2, 1), Lit(1, 2)),
      Req(Power("f32", 1, Lit(2, 1)), 0, Lit(4, 1), Lit(1, 20)),
      Req(Power("f32", 1, Lit(1, 2)), 0, Lit(2, 1), Lit(1, 10)),
      Req(Power("f64", 1, Lit(1, 2)), 0, Lit(2, 1), Lit(1, 2)),
      Req(Power("f32", 1, Lit(1, 2)), Lit(0 - 2, 1), 0, Lit(1, 10)),
      Req(Power("f32", 1, Lit(1, 2)), Lit(0 - 2, 1), Lit(2, 1), Lit(1, 10)),
      Req(Power("f32", 1, Lit(1, 1)), Lit(0 - 4, 1), Lit(4, 1), Lit(1, 10)),
      Req(Power("u32", 1, Lit(1, 1)), Lit(2, 1), Lit(1, 1), Lit(1, 20)),
      Req(Power("i8", 1, Lit(2, 1)), 0, Lit(4, 1), Lit(1, 10)),
      Req(Power("boolean", 1, Lit(1, 1)), 0, Lit(4, 1), Lit(1, 10)),
      Req(Power("f32", 2, Lit(2, 1)), 0, Lit(4, 1), Lit(1, 10)),
      Req(Power("f32", 0, 0), 0, Lit(4, 1), Lit(1, 10)),
      Req(Power("null", 0, 0), 0, Lit(4, 1), Lit(1, 10)),
      Req(PowerIE(Lit(2, 1), Lit(2, 1), Lit(1, 1)), 0, Lit(2, 1), Lit(1, 2)),
      Req(PowerIE(Lit(1, 1), Lit(1, 1), 0), 0, Lit(2, 1), Lit(1, 2)) }

Init ==
    /\ \E r \in Requests :
          /\ node = r.node
          /\ lower_bound = r.lower_bound
          /\ upper_bound = r.upper_bound
          /\ allowed_err_pct = r.allowed_err_pct
    /\ fun = FunctionOf(node)
    /\ pc = "transpose_to_pwl"
    /\ half = "whole"
    /\ lo = lower_bound
    /\ hi = upper_bound
    /\ pwl = <<>>
    /\ pwl1 = <<>>
    /\ err_pct1 = 0
    /\ err_pct = 0
    /\ segments_number = 0
    /\ negative = FALSE
    /\ err = 0
    /\ N = 0
    /\ j = 0
    /\ Delta = SC
    /\ same_epsilon = FALSE
    /\ max_epsilon = 0
    /\ max_epsilon_prev = 0
    /\ min_epsilon = 0
    /\ t = [i \in 0..0 |-> <<>>]
    /\ alpha = [i \in 0..0 |-> <<>>]
    /\ epsilon = [i \in 0..0 |-> <<>>]
    /\ d = [i \in 0..0 |-> <<>>]
    /\ segments = <<>>
    /\ thrown = "none"
    /\ retval = "none"
    /\ graph = [op |-> node.type]
    /\ tried = <<>>
    /\ prev = <<>>

Next ==
    \/ DispatchNoMatch
    \/ PwlSearchNullConstant
    \/ PwlSearchExponentSize
    \/ PwlSearchUnsupported
    \/ PwlSearchIdentity
    \/ PwlSearchNode
    \/ PwlSearchEmpty
    \/ PwlSearchSplit
    \/ PwlSearchSingle
    \/ PivotThrowRange
    \/ PivotReturn
    \/ PivotNotConverged
    \/ PivotDescend
    \/ CalculateErrorPct
    \/ LoopGrow
    \/ LoopExitThrow
    \/ LoopExitReturn
    \/ ReturnLeft
    \/ ReturnRight
    \/ ReturnWhole
    \/ TransposeReject
    \/ TransposeReplace

Spec == Init /\ [][Next]_vars

\* ------------------------------------------------------------------------
\* The pass applied a second time to the same node and domain
\* ------------------------------------------------------------------------
\* the allowed errors the pass is constructed with
Budgets == {Lit(1, 2), Lit(1, 10), Lit(1, 20)}

\* the state a transpose_to_pwl call ended in
Snapshot ==
    [allowed_err_pct |-> allowed_err_pct, pc |-> pc, half |-> half, lo |-> lo, hi |-> hi,
     pwl |-> pwl, pwl1 |-> pwl1, err_pct1 |-> err_pct1, err_pct |-> err_pct,
     segments_number |-> segments_number, negative |-> negative, err |-> err,
     N |-> N, j |-> j, Delta |-> Delta, same_epsilon |-> same_epsilon,
     max_epsilon |-> max_epsilon, max_epsilon_prev |-> max_epsilon_prev,
     min_epsilon |-> min_epsilon, t |-> t, alpha |-> alpha, epsilon |-> epsilon, d |-> d,
     segments |-> segments, thrown |-> thrown, retval |-> retval, graph |-> graph,
     tried |-> tried]

\* a second transpose_to_pwl call for the same node in a fresh graph, by a pass
\* constructed with the same or a smaller allowed error: err_pct and segments are
\* initialised by the call (line 390, line 391), the locals of the callees hold
\* whatever the first call left until the code assigns them
RunAgain ==
    /\ pc \in {"done", "thrown"}
    /\ prev = <<>>
    /\ \E e \in Budgets :
          /\ FLe(e, allowed_err_pct)
          /\ allowed_err_pct' = e
    /\ prev' = <<Snapshot>>
    /\ pc' = "transpose_to_pwl"
    /\ err_pct' = 0
    /\ segments' = <<>>
    /\ thrown' = "none"
    /\ retval' = "none"
    /\ graph' = [op |-> node.type]
    /\ UNCHANGED <<node, fun, lower_bound, upper_bound, outerVars, pwl, segments_number,
                   negative, err, pivotVars, tried>>

NextTwice == Next \/ RunAgain

SpecTwice == Init /\ [][NextTwice]_vars

\* ------------------------------------------------------------------------
\* calculate_error_pct called on its own: any two bounds, the other way round too, an
\* activation function, and a PWL that is 0 everywhere
\* ------------------------------------------------------------------------
\* how many units the wide domains give each of the samples + 1 steps
SampleStep == 128

\* bounds around 0: halves, where exp is resolved to a few units, and multiples of
\* samples + 1 steps, where the spacing of the samples is exact
SampleBounds ==
    {Lit(k, 2) : k \in (0 - 2)..2} \cup {n * (samples + 1) * SampleStep : n \in (0 - 2)..2}

InitSamples ==
    /\ node \in {Activation("Exp"), Activation("Tanh")}
    /\ lower_bound \in SampleBounds
    /\ upper_bound \in SampleBounds
    /\ allowed_err_pct = Lit(1, 10)
    /\ fun = FunctionOf(node)
    /\ pc = "error_pct"
    /\ half = "whole"
    /\ lo = lower_bound
    /\ hi = upper_bound
    /\ pwl = << [alpha |-> lower_bound, m |-> 0, b |-> 0],
                [alpha |-> upper_bound, m |-> 0, b |-> 0] >>
    /\ pwl1 = <<>>
    /\ err_pct1 = 0
    /\ err_pct = 0
    /\ segments_number = 1
    /\ negative = FALSE
    /\ err = 0
    /\ N = 1
    /\ j = 0
    /\ Delta = SC
    /\ same_epsilon = FALSE
    /\ max_epsilon = 0
    /\ max_epsilon_prev = 0
    /\ min_epsilon = 0
    /\ t = [i \in 0..1 |-> <<>>]
    /\ alpha = [i \in 0..1 |-> <<>>]
    /\ epsilon = [i \in 0..1 |-> <<>>]
    /\ d = [i \in 0..1 |-> <<>>]
    /\ segments = <<>>
    /\ thrown = "none"
    /\ retval = "none"
    /\ graph = [op |-> node.type]
    /\ tried = <<>>
    /\ prev = <<>>

NextSamples == CalculateErrorPct

SpecSamples == InitSamples /\ [][NextSamples]_vars

\* ------------------------------------------------------------------------
\* Properties
\* ------------------------------------------------------------------------
\* the generic pwl_search was called: not the identity shortcut, no failed get_exponent
GenericCall ==
    /\ node.type = "Power" => get_exponent(1, node) = "matched"
    /\ ~Identity

\* a pwl_search call that took the non-split path is returning
NonSplitReturn ==
    /\ pc = "return"
    /\ ~FGt(lower_bound, upper_bound)
    /\ half = "whole" => ~split_search(fun.kind, lower_bound, upper_bound)

\* the outermost call returns the merged halves of a split
SplitReturn ==
    /\ pc = "return"
    /\ half = "whole"
    /\ split_search(fun.kind, lower_bound, upper_bound)

\* C1: for every completed approximation, |f(x) - pwl(x)| <= eps * (1 + 0.01) for every
\* x of [L, U]; stated at the breakpoints of the returned sequence and the two ends of
\* the domain, which are points of [L, U]
C1_ErrorWithinBudget ==
    (pc = "return" /\ half = "whole" /\ pwl # <<>>) =>
        \A x \in {pwl[k].alpha : k \in 1..Len(pwl)} \cup {lower_bound, upper_bound} :
            FLe(FAbs(FSub(get_value(fun, x), PwlEval(pwl, x))),
                FMul(allowed_err_pct, FAdd(SC, Lit(1, 100))))

\* C2: on the non-split path pivot_search runs for N = 1, 2, 3, ... in order, once per N;
\* every N before the last had a sampled error above the budget, and the call returns the
\* segments of the first N whose sampled error is within the budget
C2_FirstHit ==
    /\ \A k \in 1..Len(tried) : tried[k][1] = k
    /\ \A k \in 1..(Len(tried) - 1) : FLt(allowed_err_pct, tried[k][2])
    /\ pc = "pivot" => N = segments_number /\ Len(tried) = segments_number - 1
    /\ pc \in {"error_pct"} => Len(pwl) = N + 1 /\ N = segments_number
    /\ NonSplitReturn =>
          /\ Len(tried) = segments_number
          /\ FLe(tried[segments_number][2], allowed_err_pct)
          /\ Len(pwl) = segments_number + 1

\* C2 witness: a non-split call returns two segments after one segment was tried and
\* found above the budget
C2_Witness ==
    /\ NonSplitReturn
    /\ Len(tried) = 2
    /\ FLt(allowed_err_pct, tried[1][2])

\* C3: every completed approximation has 1 <= N - 1 <= max_segments for its length N,
\* on the non-split path and for the concatenated halves of a split
C3_LengthWithinMax ==
    (pc = "segments" /\ segments # <<>>) =>
        /\ 1 <= Len(segments) - 1
        /\ Len(segments) - 1 <= max_segments_number(fun.kind)

\* C4: a sequence returned by pwl_search over [L, U] starts at alpha = L and ends at
\* alpha = U, split or not, and every column of alpha[0] and alpha[N] of pivot_search
\* holds alpha_0 and alpha_N
C4_Bracket ==
    /\ (pc = "return" /\ pwl # <<>>) =>
          /\ pwl[1].alpha = lo
          /\ pwl[Len(pwl)].alpha = hi
    /\ (pc = "return" /\ half = "whole") => lo = lower_bound /\ hi = upper_bound
    /\ pc \in {"pivot", "error_pct", "loop"} =>
          /\ Len(alpha[0]) = Len(alpha[N])
          /\ \A c \in 1..Len(alpha[0]) : alpha[0][c] = alpha_0 /\ alpha[N][c] = alpha_N

\* C4 witness: a split returns, after a pivot_search that took more than one pass
C4_Witness ==
    /\ SplitReturn
    /\ Len(pwl) >= 3
    /\ j > 0
    /\ pwl[1].alpha = lower_bound
    /\ pwl[Len(pwl)].alpha = upper_bound

C6_NotConvergedOnlyAboveBudget ==
    thrown = "PwlNotConverged" =>
        /\ segments_number >= max_segments_number(fun.kind)
        /\ FLt(allowed_err_pct, err_pct)

\* C7: pivot_search fails to converge only in a pass with j = max_iterations whose
\* spread test does not pass
C7_NotConvergedOnlyWithoutSpread ==
    thrown = "PivotNotConverged" =>
        /\ j = max_iterations(fun.kind)
        /\ ~FLt(FSub(max_epsilon, min_epsilon), FMul(threshold, min_epsilon))

\* C8: a pass in which some epsilon[i] is not finite ends in the range error: no
\* column with a NaN or an infinity is left behind by a pass that goes on
C8_NonFiniteRejected ==
    (\E i \in DOMAIN epsilon : \E c \in 1..Len(epsilon[i]) : ~IsFinite(epsilon[i][c])) =>
        thrown = "OutOfRange"

\* C9 as stated: pwl_search never returns normally when lower_bound > upper_bound
C9_NeverReturns == FGt(lo, hi) => pc # "return"

\* C9: with lower_bound > upper_bound the generic pwl_search returns the empty sequence
\* without any pivot_search or calculate_error_pct and without an error, and
\* transpose_to_pwl returns false and leaves the node in place
C9_EmptyResult ==
    (FGt(lower_bound, upper_bound) /\ GenericCall) =>
        /\ pc \in {"transpose_to_pwl", "pwl_search", "return", "segments", "done"}
        /\ thrown = "none"
        /\ N = 0
        /\ tried = <<>>
        /\ pwl = <<>>
        /\ segments = <<>>
        /\ graph = [op |-> node.type]
        /\ pc = "done" => retval = "false"

\* C9 witness: transpose_to_pwl has returned false for a request with L > U
C9_Witness ==
    /\ FGt(lower_bound, upper_bound)
    /\ GenericCall
    /\ pc = "done"
    /\ retval = "false"

\* C10: when an approximation ends in an error, no segment sequence reaches
\* transpose_to_pwl, replace_node is not executed and the node stays in place
C10_NoPartialResult ==
    thrown # "none" =>
        /\ pc = "thrown"
        /\ segments = <<>>
        /\ retval = "none"
        /\ graph = [op |-> node.type]

\* C10 witness: the right half of a split fails after the left half has produced its
\* segments
C10_Witness ==
    /\ thrown # "none"
    /\ half = "right"
    /\ pwl1 # <<>>

\* C11: no error is retried: a failure of pivot_search for N segments is final (no
\* calculate_error_pct for that N, no pivot_search for N + 1, no search of the right
\* half after a failure in the left half), and no step follows any failure
C11_NoRetry ==
    /\ [](thrown \in {"OutOfRange", "PivotNotConverged"} =>
            /\ pc = "thrown"
            /\ N = segments_number
            /\ Len(tried) = segments_number - 1)
    /\ [][thrown # "none" =>
            UNCHANGED <<pc, half, lo, hi, N, j, segments_number, tried, pwl, pwl1,
                        segments, thrown, retval, graph>>]_vars

\* C11 witness: pivot_search has failed in the left half of a split
C11_Witness ==
    /\ thrown \in {"OutOfRange", "PivotNotConverged"}
    /\ half = "left"
    /\ pwl1 = <<>>

\* C12: a power node with exponent 1, Power with an accepted constant or PowerIE, gets
\* exactly the two entries (INT32_MIN, 1, 0), (INT32_MAX, 0, 0) and neither
\* pivot_search nor calculate_error_pct runs for it
C12_IdentityForBothKinds ==
    (/\ node.type \in {"Power", "PowerIE"}
     /\ node.type = "Power" => get_exponent(1, node) = "matched"
     /\ are_floats_equal(node.exponent, SC)) =>
        /\ pc \in {"transpose_to_pwl", "segments", "done"}
        /\ N = 0
        /\ tried = <<>>
        /\ pc # "transpose_to_pwl" =>
              segments = << [alpha |-> INT32_MIN_D, m |-> SC, b |-> 0],
                            [alpha |-> INT32_MAX_D, m |-> 0, b |-> 0] >>

\* the element types the claim C13 accepts: the integers of width <= 64, signed and
\* unsigned, and the floating-point types of any width
C13_AcceptedTypes ==
    {"i4", "i8", "i16", "i32", "i64", "u1", "u4", "u8", "u16", "u32", "u64",
     "bf16", "f16", "f32", "f64"}

\* C13: once the exponent of a Power node has been looked at, the request is rejected
\* (an error, no segments) exactly when the element type of the constant is not an
\* integer of width <= 64 or a floating-point type, or the constant does not hold
\* exactly one element
C13_ExponentAccepted ==
    (node.type = "Power" /\ pc # "transpose_to_pwl") =>
        /\ thrown \in {"ExponentSize", "UnsupportedType"} <=>
              ~(node.element_type \in C13_AcceptedTypes /\ node.size = 1)
        /\ thrown \in {"ExponentSize", "UnsupportedType"} =>
              segments = <<>> /\ pwl = <<>> /\ N = 0

\* C14: for n >= 2 returned entries the Pwl node carries m and b of length n - 1 and
\* alpha of length n, entry i giving m[i], b[i], alpha[i] in order and the terminal
\* entry giving only alpha[n - 1]; for fewer than 2 entries the node is not replaced
\* and transpose_to_pwl returns false
C14_PwlNodeArrays ==
    pc = "done" =>
        IF Len(segments) >= 2
        THEN /\ retval = "true"
             /\ graph.op = "Pwl"
             /\ Len(graph.m) = Len(segments) - 1
             /\ Len(graph.b) = Len(segments) - 1
             /\ Len(graph.alpha) = Len(segments)
             /\ \A k \in 1..(Len(segments) - 1) :
                    /\ graph.m[k] = segments[k].m
                    /\ graph.b[k] = segments[k].b
                    /\ graph.alpha[k] = segments[k].alpha
             /\ graph.alpha[Len(segments)] = segments[Len(segments)].alpha
        ELSE /\ retval = "false"
             /\ graph = [op |-> node.type]

\* C14 witness: a node was replaced from a sequence of at least two segments and the
\* terminal entry
C14_Witness ==
    /\ pc = "done"
    /\ retval = "true"
    /\ Len(segments) >= 3
    /\ graph.op = "Pwl"
    /\ Len(graph.m) = Len(segments) - 1

\* C15: a pwl_search call with L <= U takes the split path exactly when the activation
\* is Sigmoid, Tanh, SoftSign, Exp or Power and L < break < U, with break 0.045 for
\* Exp and 0 otherwise, and the non-split path in every other case: Log never splits
\* and the two half-searches, one bound of which is the break, never split again
C15_SplitExactly ==
    [][(pc = "pwl_search" /\ ~FGt(lo, hi)) =>
          LET brk     == IF fun.kind = "Exp" THEN Lit(45, 1000) ELSE 0
              claimed == /\ fun.kind \in {"Sigmoid", "Tanh", "SoftSign", "Exp", "Power"}
                         /\ FLt(lo, brk)
                         /\ FGt(hi, brk)
          IN  /\ (pc' = "pwl_search" /\ half' = "left" /\ hi' = brk) <=> claimed
              /\ (pc' = "pivot" /\ half' = half /\ N' = 1) <=> ~claimed
              /\ fun.kind = "Log" => pc' = "pivot"
              /\ half \in {"left", "right"} => pc' = "pivot"]_vars

\* C15 witness: the right half of a split Exp search, whose lower bound is the break
\* 0.045, is in its first pivot_search of the non-split path
C15_Witness ==
    /\ fun.kind = "Exp"
    /\ half = "right"
    /\ pc = "pivot"
    /\ N = 1
    /\ lo = EXP_BREAK
    /\ FLt(lower_bound, EXP_BREAK)

\* C16: for the same activation and domain, a second approximation with an allowed
\* error not above the first one's returns, when both complete, at least as many
\* entries as the first
C16_Monotone ==
    (/\ Len(prev) = 1
     /\ pc \in {"segments", "done"}
     /\ segments # <<>>
     /\ prev[1].segments # <<>>) =>
        /\ FLe(allowed_err_pct, prev[1].allowed_err_pct)
        /\ Len(segments) >= Len(prev[1].segments)

\* C16 witness: the second approximation, with a smaller allowed error, completed with
\* more entries than the first
C16_Witness ==
    /\ Len(prev) = 1
    /\ pc = "done"
    /\ FLt(allowed_err_pct, prev[1].allowed_err_pct)
    /\ prev[1].segments # <<>>
    /\ Len(segments) > Len(prev[1].segments)

PivotRank == (max_iterations(fun.kind) - j) * (SC + 1) + Delta

\* C18: every invocation of pivot_search terminates: j never passes the iteration cap,
\* a pass at the cap leaves the loop, every pass that stays in the loop either advances
\* j or reverts with a strictly smaller Delta (so PivotRank, never negative, strictly
\* decreases), and the loop is left only with the segments (error_pct) or with
\* OutOfRange / PivotNotConverged
C18_PivotTerminates ==
    [][pc = "pivot" =>
          /\ N >= 1
          /\ 0 <= j /\ j <= max_iterations(fun.kind)
          /\ Delta >= 0
          /\ j = max_iterations(fun.kind) => pc' # "pivot"
          /\ pc' = "pivot" =>
                /\ \/ j' = j + 1 /\ Delta' = Delta
                   \/ j' = j /\ Delta' < Delta
                /\ PivotRank' < PivotRank
                /\ PivotRank' >= 0
          /\ pc' # "pivot" =>
                \/ pc' = "error_pct" /\ thrown' = "none"
                \/ pc' = "thrown" /\ thrown' \in {"OutOfRange", "PivotNotConverged"}]_vars

\* C18 witness: a pivot_search that reverted several times at ties, j unchanged by
\* each revert, has left its loop
C18_Witness ==
    /\ pc = "thrown"
    /\ thrown = "PivotNotConverged"
    /\ N = 1
    /\ j = max_iterations(fun.kind)
    /\ FLe(Delta, Lit(1, 8))

\* C19: in every pass of pivot_search with N >= 1, 0 <= j <= max_iterations; the
\* histories t[i], alpha[i], epsilon[i] and d[i] never hold more than
\* max_iterations + 2 columns; and the columns a pass touches exist: column j of
\* t[0..N-1], which Box #2, Box #3 and the result read, and, once j > 0, column j - 1
\* of alpha, epsilon and t that Box #4 reads after a revert and column j - 1 of d and
\* column j of t that Box #4 and Box #5 wrote
C19_ColumnsExist ==
    (N >= 1 /\ pc \in {"pivot", "error_pct", "thrown"}) =>
        /\ 0 <= j /\ j <= max_iterations(fun.kind)
        /\ DOMAIN t = 0..N /\ DOMAIN alpha = 0..N /\ DOMAIN epsilon = 0..N /\ DOMAIN d = 0..N
        /\ \A i \in 0..N :
              /\ Len(t[i]) <= max_iterations(fun.kind) + 2
              /\ Len(alpha[i]) <= max_iterations(fun.kind) + 2
              /\ Len(epsilon[i]) <= max_iterations(fun.kind) + 2
              /\ Len(d[i]) <= max_iterations(fun.kind) + 2
        /\ \A i \in 0..(N - 1) : Len(t[i]) = j + 1
        /\ j > 0 =>
              /\ \A i \in 0..N : Len(alpha[i]) >= j /\ Len(epsilon[i]) >= j
              /\ \A i \in 0..(N - 1) : Len(d[i]) = j
              /\ Len(t[N]) = j + 1
        /\ pc # "pivot" =>
              \A i \in 0..N : Len(alpha[i]) = j + 1 /\ Len(epsilon[i]) \in {j, j + 1}

\* C19 witness: a pass about to run on column j right after a revert (Delta halved
\* more than once), with every history as long as the pass needs
C19_Witness ==
    /\ pc = "pivot"
    /\ N >= 1
    /\ j >= 3
    /\ FLe(Delta, Lit(1, 4))
    /\ ~same_epsilon
    /\ \A i \in 0..N : Len(alpha[i]) = j + 1 /\ Len(epsilon[i]) = j + 1

\* C20: a node whose type is none of Sigmoid, Tanh, Exp, Power, PowerIE, Log, SoftSign
\* is never replaced: no search is started for it, nothing is thrown, the dispatch
\* returns false, and the graph keeps the node as it was
C20_OtherTypesUntouched ==
    (node.type \notin {"Sigmoid", "Tanh", "Exp", "Power", "PowerIE", "Log", "SoftSign"}) =>
        /\ pc \in {"transpose_to_pwl", "done"}
        /\ pc = "done" => retval = "false"
        /\ pc = "transpose_to_pwl" => retval = "none"
        /\ graph = [op |-> node.type]
        /\ thrown = "none"
        /\ segments = <<>>
        /\ pwl = <<>>
        /\ N = 0
        /\ tried = <<>>

\* C20 witness: the dispatch has returned false for an Abs or a Sign node
C20_Witness ==
    /\ node.type \in {"Abs", "Sign"}
    /\ pc = "done"
    /\ retval = "false"
    /\ graph = [op |-> node.type]

\* C21: sign bookkeeping is balanced: when a non-split pwl_search call returns the
\* segments of a pivot_search that ran with negative = true, they reach the caller of
\* the outermost pwl_search negated once, and those searched with negative = false
\* reach it as pivot_search gave them; for the left half, the right half and the
\* non-split outermost call
C21_SignBalanced ==
    [][(pc = "return" /\ ~FGt(lo, hi) /\ pwl # <<>>) =>
          LET once == IF negative THEN negative_pwl(pwl) ELSE pwl
          IN  /\ half = "left" => pwl1' = once
              /\ half = "right" =>
                    SubSeq(pwl', Len(pwl') - Len(pwl) + 1, Len(pwl')) = once
              /\ (half = "whole" /\ ~split_search(fun.kind, lower_bound, upper_bound)) =>
                    segments' = once
              /\ (half = "whole" /\ split_search(fun.kind, lower_bound, upper_bound)) =>
                    segments' = pwl]_vars

\* C22: a pass with j > 0 that stays in the loop and whose max_epsilon is greater
\* than that of the pass before it halves Delta and ends with the j it started with,
\* column j of t recomputed from column j - 1 with the step d of the halved Delta; a
\* pass with j = 0 that stays in the loop advances to j = 1 with Delta unchanged
C22_RevertOnGreater ==
    [][(pc = "pivot" /\ pc' = "pivot") =>
          /\ (j > 0 /\ FGt(max_epsilon', max_epsilon)) =>
                /\ j' = j
                /\ Delta' = FDiv(Delta, Lit(2, 1))
                /\ same_epsilon' = same_epsilon
                /\ \A i \in 0..(N - 1) :
                      /\ d'[i][j] = Box4(Delta', alpha', epsilon', j - 1)[i]
                      /\ t'[i][j + 1] = FAdd(t[i][j], d'[i][j])
                      /\ t'[i][j] = t[i][j]
          /\ j = 0 => (j' = 1 /\ Delta' = Delta /\ same_epsilon' = same_epsilon)]_vars

\* C22 witness: the loop is at column j again after a pass whose max_epsilon was
\* greater than the one before it, with Delta halved
C22_Witness ==
    /\ pc = "pivot"
    /\ j > 0
    /\ FGt(max_epsilon, max_epsilon_prev)
    /\ FLt(Delta, SC)
    /\ \A i \in 0..(N - 1) : Len(d[i]) = j /\ t[i][j + 1] = FAdd(t[i][j], d[i][j])

\* C23: in a pass with j > 0 that stays in the loop and whose max_epsilon equals that
\* of the pass before it, a clear same_epsilon is set and j advances with Delta
\* unchanged, and a set same_epsilon is cleared with j kept and Delta halved; no other
\* pass of the invocation changes same_epsilon, and neither does leaving the loop
C23_SecondEquality ==
    [][pc = "pivot" =>
          /\ pc' = "pivot" =>
                LET tie == j > 0 /\ FEq(max_epsilon', max_epsilon)
                IN  /\ (tie /\ ~same_epsilon) =>
                          (same_epsilon' /\ j' = j + 1 /\ Delta' = Delta)
                    /\ (tie /\ same_epsilon) =>
                          (~same_epsilon' /\ j' = j /\ Delta' = FDiv(Delta, Lit(2, 1)))
                    /\ ~tie => same_epsilon' = same_epsilon
          /\ pc' # "pivot" => same_epsilon' = same_epsilon]_vars

\* C23 witness: the loop right after the revert of a second equality, which came
\* after an earlier revert of the same invocation
C23_Witness ==
    /\ pc = "pivot"
    /\ j > 1
    /\ FEq(max_epsilon, max_epsilon_prev)
    /\ ~same_epsilon
    /\ FLe(Delta, Lit(1, 4))

\* Box #4 on one column: alc, epc and tc are the column of alpha, epsilon and t it
\* reads, dl the step Delta
Box4Column(dl, alc, epc, tc) ==
    [i \in 0..(N - 1) |->
        FDiv(FMul(dl, FSub(epc[i + 1], epc[i])),
             FAdd(FDiv(epc[i + 1], FSub(alc[i + 1], tc[i])),
                  FDiv(epc[i], FSub(tc[i], alc[i]))))]

\* C24: a pass reads nothing older than the column before the current one: Box #2,
\* Box #3 and the result use column j of t alone, Box #4 and Box #5 use the current
\* column of alpha, epsilon and t or, after a revert, column j - 1, and max_epsilon of
\* the pass before; so every pass of the loop is the pass of an implementation that
\* holds the last two columns, and the last two columns after the pass are made of
\* the last two columns before it
C24_LastTwoColumns ==
    [][pc = "pivot" =>
          \E ps \in {Pass} :
             \E rev \in {Revert(ps)} :
                \E alc \in {IF rev THEN [i \in 0..N |-> alpha[i][j]] ELSE ps.alpha},
                   epc \in {IF rev THEN [i \in 0..N |-> epsilon[i][j]] ELSE ps.epsilon},
                   tc \in {IF rev THEN [i \in 0..(N - 1) |-> t[i][j]] ELSE ps.t},
                   dl \in {IF rev THEN FDiv(Delta, Lit(2, 1)) ELSE Delta} :
                   /\ pc' = "pivot" =>
                         /\ j' = (IF rev THEN j ELSE j + 1)
                         /\ Delta' = dl
                         /\ \A i \in 0..(N - 1) :
                               /\ t'[i][j' + 1] = FAdd(tc[i], Box4Column(dl, alc, epc, tc)[i])
                               /\ t'[i][j'] = tc[i]
                         /\ \A i \in 0..N :
                               /\ alpha'[i][j'] = alc[i]
                               /\ epsilon'[i][j'] = epc[i]
                   /\ pc' = "error_pct" => pwl' = Result(ps) /\ err' = EpsilonFinal(ps)]_vars

\* C24 witness: the loop after two advances and a revert: columns 0 .. j - 2 of t,
\* alpha and epsilon are held and no later pass reads them
C24_Witness ==
    /\ pc = "pivot"
    /\ j >= 3
    /\ FLt(Delta, SC)
    /\ \A i \in 0..(N - 1) : Len(t[i]) = j + 1 /\ t[i][1] # t[i][j]

\* C25: when the right half of a split returns, the outer call returns the entries of
\* the left half (as negated) without the last one, followed by every entry of the
\* right half in order (negated for Exp and Power): |left| + |right| - 1 entries, the
\* break-point being the alpha of the first entry of the right half and of no other
\* entry, and the error is (err_pct1 + err_pct2) / 2
C25_Merge ==
    [][(pc = "return" /\ half = "right") =>
          /\ Len(pwl1) >= 1 /\ Len(pwl) >= 1
          /\ Len(pwl') = Len(pwl1) + Len(pwl) - 1
          /\ \A k \in 1..(Len(pwl1) - 1) : pwl'[k] = pwl1[k]
          /\ \A k \in 1..Len(pwl) :
                /\ pwl'[Len(pwl1) - 1 + k].alpha = pwl[k].alpha
                /\ pwl'[Len(pwl1) - 1 + k] =
                      (IF fun.kind \in {"Exp", "Power"} THEN negative_pwl(pwl)[k] ELSE pwl[k])
          /\ pwl1[Len(pwl1)].alpha = get_break_bound(fun.kind)
          /\ \A k \in 1..Len(pwl') :
                pwl'[k].alpha = get_break_bound(fun.kind) <=> k = Len(pwl1)
          /\ err_pct' = FDiv(FAdd(err_pct1, err_pct), Lit(2, 1))
          /\ pc' = "return" /\ half' = "whole"]_vars

\* C25 witness: the outer call of a split returns at least three entries, the two
\* halves having had different errors
C25_Witness ==
    /\ pc = "return"
    /\ half = "whole"
    /\ split_search(fun.kind, lower_bound, upper_bound)
    /\ Len(pwl) >= 3
    /\ Len(pwl1) >= 2
    /\ err_pct1 # err_pct

\* C26: calculate_error_pct evaluates the points lower_bound + i * delta for
\* i = 0 .. samples - 1, delta = (upper_bound - lower_bound) / (samples + 1): the first
\* is lower_bound, all lie in [lower_bound, upper_bound], the last is below
\* upper_bound when upper_bound > lower_bound, and the result is the largest error at
\* these points (for Exp against the PWL 0 the value at the last point, which on the
\* domains within [-1, 1] is less than the value at upper_bound); with
\* upper_bound < lower_bound the result is 0
C26_SamplePoints ==
    [][pc = "error_pct" =>
          IF FLt(hi, lo) THEN err_pct' = 0
          ELSE /\ SampleIn(lo, hi, 0) = lo
               /\ \A i \in 0..(samples - 1) :
                     /\ FLe(lo, SampleIn(lo, hi, i))
                     /\ FLe(SampleIn(lo, hi, i), hi)
                     /\ FLe(SampleIn(lo, hi, i), SampleIn(lo, hi, samples - 1))
               /\ FGt(hi, lo) => FLt(SampleIn(lo, hi, samples - 1), hi)
               /\ FLe(FAbs(get_value(fun, lo)), err_pct')
               /\ (fun.kind = "Exp" /\ Len(pwl) = 2 /\ pwl[1].m = 0 /\ pwl[1].b = 0) =>
                     /\ err_pct' = get_value(fun, SampleIn(lo, hi, samples - 1))
                     /\ (FGt(hi, lo) /\ FLe(FAbs(lo), SC) /\ FLe(FAbs(hi), SC)) =>
                           FLt(err_pct', get_value(fun, hi))]_vars

\* C26 witness: calculate_error_pct has returned the error of Exp against the PWL 0
\* over a domain of positive length: more than exp(lower_bound), less than
\* exp(upper_bound)
C26_Witness ==
    /\ pc = "loop"
    /\ fun.kind = "Exp"
    /\ FGt(hi, lo)
    /\ Len(pwl) = 2 /\ pwl[1].m = 0 /\ pwl[1].b = 0
    /\ tried = << <<1, err_pct>> >>
    /\ FGt(err_pct, get_value(fun, lo))
    /\ FLt(err_pct, get_value(fun, hi))

\* column c (0-based) of epsilon
EpsilonColumn(c) == [i \in 0..N |-> epsilon[i][c + 1]]

\* C27: at every pass with j > 0 that reaches the regress test, the test compares
\* with the max_epsilon of the pass just before it, which is the largest |epsilon| of the last column that
\* pass wrote: column j - 1 after an advance, the rejected column j after a revert;
\* the pass stores that value in max_epsilon_prev and its decision to revert is the
\* comparison of its own max_epsilon with it
C27_PreviousPass ==
    [][(pc = "pivot" /\ j > 0 /\ pc' = "pivot") =>
          \E last \in {EpsilonColumn(Len(epsilon[0]) - 1)} :
             /\ Len(epsilon[0]) \in {j, j + 1}
             /\ max_epsilon = MaxEps(last, 1, FAbs(last[0]))
             /\ max_epsilon_prev' = max_epsilon
             /\ j' = j <=> \/ FGt(max_epsilon', max_epsilon_prev')
                           \/ FEq(max_epsilon', max_epsilon_prev') /\ same_epsilon]_vars

\* C27 witness: a pass about to run right after a revert, the rejected column j of
\* epsilon having another maximum than the retained column j - 1
C27_Witness ==
    /\ pc = "pivot"
    /\ j > 0
    /\ Len(epsilon[0]) = j + 1
    /\ max_epsilon = MaxEps(EpsilonColumn(j), 1, FAbs(epsilon[0][j + 1]))
    /\ max_epsilon # MaxEps(EpsilonColumn(j - 1), 1, FAbs(epsilon[0][j]))

\* C28: the completion test comes before the regress handling: a pass that meets the
\* spread test or runs at j = max_iterations (and has no NaN in its column) leaves the
\* loop, whatever its max_epsilon is against the one before; it emits the segments on
\* the alphas of its own column j, and j, Delta and same_epsilon are as before the pass
C28_CompletionFirst ==
    [][pc = "pivot" =>
          \E ps \in {Pass} :
             /\ (~EpsHasNan(ps) /\ (SpreadTest(ps) \/ j = max_iterations(fun.kind))) =>
                   /\ pc' \in {"error_pct", "thrown"}
                   /\ pc' = "thrown" => thrown' = "PivotNotConverged"
             /\ (pc' = "error_pct" \/ thrown' = "PivotNotConverged") =>
                   /\ j' = j
                   /\ Delta' = Delta
                   /\ same_epsilon' = same_epsilon
                   /\ Len(pwl') = N + 1
                   /\ \A i \in 0..N :
                         /\ pwl'[i + 1].alpha = ps.alpha[i]
                         /\ alpha'[i][j + 1] = ps.alpha[i]]_vars

\* C28 witness: pivot_search has returned segments from a pass with j > 0 whose
\* max_epsilon was not below the one before it
C28_Witness ==
    /\ pc = "error_pct"
    /\ j > 0
    /\ ~FLt(max_epsilon, max_epsilon_prev)
    /\ Len(pwl) = N + 1
    /\ \A i \in 0..N : pwl[i + 1].alpha = alpha[i][j + 1]

\* C29: a pass whose smallest |epsilon| is 0 does not meet the spread test: it never
\* returns segments, and it leaves the loop as complete only at j = max_iterations,
\* with "Failed to converge in pivot_search!"
C29_ZeroMinimum ==
    [][pc = "pivot" =>
          \E ps \in {Pass} :
             (~EpsHasNan(ps) /\ ps.min_epsilon = 0) =>
                /\ ~SpreadTest(ps)
                /\ pc' # "error_pct"
                /\ pwl' # pwl => (j = max_iterations(fun.kind) /\ thrown' = "PivotNotConverged")
                /\ j # max_iterations(fun.kind) => (pc' = "pivot" /\ thrown' = "none")
                /\ j = max_iterations(fun.kind) =>
                      (pc' = "thrown" /\ thrown' = "PivotNotConverged")]_vars

\* C29 witness: a pass at j = max_iterations whose smallest |epsilon| was 0 and whose
\* largest was not has ended the search with "Failed to converge in pivot_search!"
C29_Witness ==
    /\ pc = "thrown"
    /\ thrown = "PivotNotConverged"
    /\ j = max_iterations(fun.kind)
    /\ min_epsilon = 0
    /\ max_epsilon > 0
    /\ \E i \in 0..N : epsilon[i][j + 1] = 0

\* C30: for a Power node whose second input is no Constant, the request ends in a
\* typed error or leaves the node unchanged; the process does not fail on a read of
\* the missing constant
C30_NullConstantSafe ==
    (node.type = "Power" /\ node.element_type = "null") =>
        /\ pc \in {"transpose_to_pwl", "thrown", "done"}
        /\ pc = "thrown" => thrown # "none"
        /\ pc = "done" => (retval = "false" /\ graph = [op |-> node.type])

====
